---- MODULE Spec2Model ----
(***************************************************************************)
(* A model of tokio-ssdp's Server (src/src/server.rs): the dispatch loop   *)
(* of the serving future, handle_search and the reply tasks it spawns, the *)
(* alive loop and the byebye waiter.                                       *)
(*                                                                         *)
(* Strings that the code compares or parses (header names, header values,  *)
(* search targets) are sequences of ASCII codes, so that                   *)
(* eq_ignore_ascii_case and str::parse::<u32> are computed, not assumed.   *)
(* A u32 is a pair of 16-bit limbs [hi, lo]: the values the code accepts   *)
(* go up to 2^32 - 1.                                                      *)
(* Time is not measured: a sleep is the duration it was asked for, and the *)
(* step that ends it.                                                      *)
(***************************************************************************)
EXTENDS Integers, Sequences, FiniteSets, TLC

\* ------------------------------------------------------------------ bounds

\* Devices in a registry.
MaxDevices == 2
\* Headers in a search request given to handle_search.
MaxHeaders == 3
\* Datagrams the dispatch loop receives in one run.
MaxRecv == 2

\* ------------------------------------------------------- program constants

\* min(3) of the reply delay.
MxCap == 3
\* The pause between two sends of one broadcast, in milliseconds.
PaceMillis == 50
\* One limb of a u32: 2^16.
Limb == 65536

\* ----------------------------------------------------------------- strings

\* u8::to_ascii_lowercase
ToAsciiLower(c) == IF c >= 65 /\ c <= 90 THEN c + 32 ELSE c

\* str::eq_ignore_ascii_case
EqIgnoreAsciiCase(a, b) ==
    /\ Len(a) = Len(b)
    /\ \A i \in 1..Len(a) : ToAsciiLower(a[i]) = ToAsciiLower(b[i])

\* "st", "mx", "man": the names handle_search looks for.
LitSt == <<115, 116>>
LitMx == <<109, 120>>
LitMan == <<109, 97, 110>>
\* "\"ssdp:discover\"", quotes included.
LitDiscover == <<34, 115, 115, 100, 112, 58, 100, 105, 115, 99, 111, 118, 101, 114, 34>>

\* A checked step of u32 parsing: acc * 10 + d, or overflow.
U32MulAdd(acc, d) ==
    LET lo10 == acc.lo * 10 + d
        hi10 == acc.hi * 10 + (lo10 \div Limb)
    IN  IF hi10 >= Limb
        THEN [ok |-> FALSE, hi |-> 0, lo |-> 0]
        ELSE [ok |-> TRUE, hi |-> hi10, lo |-> lo10 % Limb]

RECURSIVE ParseDigits(_, _, _)
ParseDigits(s, i, acc) ==
    IF i > Len(s) THEN acc
    ELSE IF s[i] < 48 \/ s[i] > 57 THEN [ok |-> FALSE, hi |-> 0, lo |-> 0]
    ELSE LET nxt == U32MulAdd(acc, s[i] - 48)
         IN  IF nxt.ok THEN ParseDigits(s, i + 1, nxt) ELSE nxt

\* str::parse::<u32>: an optional '+', then one digit or more, no overflow.
ParseU32(s) ==
    LET zero == [ok |-> TRUE, hi |-> 0, lo |-> 0]
        bad == [ok |-> FALSE, hi |-> 0, lo |-> 0]
    IN  IF Len(s) = 0 THEN bad
        ELSE IF s[1] = 43 \/ s[1] = 45
             THEN IF Len(s) = 1 THEN bad
                  ELSE IF s[1] = 43 THEN ParseDigits(s, 2, zero)
                  ELSE ParseDigits(s, 1, zero)
        ELSE ParseDigits(s, 1, zero)

U32(n) == [hi |-> n \div Limb, lo |-> n % Limb]
U32Zero == [hi |-> 0, lo |-> 0]
\* mx > 0
U32Positive(x) == x.hi > 0 \/ x.lo > 0
\* mx.min(3), which fits one limb
U32MinCap(x) == IF x.hi > 0 \/ x.lo > MxCap THEN MxCap ELSE x.lo

\* ------------------------------------------------------------------ inputs

\* Search targets of registered devices: "a", "B".
Targets == {<<97>>, <<66>>}

Device(i, t) == [search_target |-> t, usn |-> <<"usn", i>>, location |-> <<"loc", i>>]

\* The registries: every sequence of at most MaxDevices devices over Targets.
Registries ==
    UNION {{[i \in 1..n |-> Device(i, f[i])] : f \in [1..n -> Targets]} : n \in 0..MaxDevices}

\* The registries of the lifecycle and dispatch specifications: n devices,
\* device i with search target "a", "b", "c", ... in turn.
PlainRegistries == {[i \in 1..n |-> Device(i, <<96 + i>>)] : n \in 0..MaxDevices}

MaxAges == {0, 100}
\* Server::new's max_age.
DefaultMaxAge == 100

\* Senders of datagrams.
Addrs == {"10.0.0.1:5000", "10.0.0.2:6000"}

Header(n, v) == [name |-> n, value |-> v]

\* The headers a search request is made of.
HeaderPool ==
    { Header(<<83, 84>>, <<65>>),                                    \* ST: A
      Header(<<115, 116>>, <<98>>),                                  \* st: b
      Header(<<77, 88>>, <<48>>),                                    \* MX: 0
      Header(<<109, 120>>, <<50>>),                                  \* mx: 2
      Header(<<77, 88>>, <<49, 48>>),                                \* MX: 10
      Header(<<77, 88>>, <<52, 50, 57, 52, 57, 54, 55, 50, 57, 53>>),\* MX: 4294967295
      Header(<<77, 88>>, <<52, 50, 57, 52, 57, 54, 55, 50, 57, 54>>),\* MX: 4294967296
      Header(<<77, 88>>, <<120>>),                                   \* MX: x
      Header(<<77, 65, 78>>, LitDiscover),                           \* MAN: "ssdp:discover"
      Header(<<77, 97, 110>>, <<115, 115, 100, 112>>) }              \* Man: ssdp

Injective(f) == \A i, j \in DOMAIN f : f[i] = f[j] => i = j

\* Header lists of a request: no header twice, at most MaxHeaders.
HeaderLists ==
    UNION {{f \in [1..n -> HeaderPool] : Injective(f)} : n \in 0..MaxHeaders}

None == <<>>
Some(x) == <<x>>

Request(status, method, path, headers) ==
    [status |-> status, method |-> method, path |-> path, headers |-> headers]

SearchRequest(hs) == Request("Complete", Some("M-SEARCH"), Some("*"), hs)

NoRequest == Request("Empty", None, None, <<>>)

\* The datagrams the dispatch loop is given, as httparse reads them: the parse
\* status, the method and path it found, the headers in order.
Datagrams ==
    { Request("Error", None, None, <<>>),
      Request("Partial", Some("M-SEARCH"), Some("*"), <<>>),
      Request("Complete", None, Some("*"), <<>>),
      Request("Complete", Some("M-SEARCH"), None, <<>>),
      Request("Complete", Some("NOTIFY"), Some("*"), <<>>),
      Request("Complete", Some("GET"), Some("/"), <<>>),
      SearchRequest(<<Header(<<83, 84>>, <<65>>)>>),
      SearchRequest(<<Header(<<77, 65, 78>>, LitDiscover), Header(<<77, 88>>, <<120>>),
                      Header(<<83, 84>>, <<65>>)>>),
      SearchRequest(<<Header(<<77, 65, 78>>, LitDiscover), Header(<<83, 84>>, <<65>>),
                      Header(<<109, 120>>, <<50>>)>>),
      SearchRequest(<<Header(<<115, 116>>, <<98>>), Header(<<77, 65, 78>>, LitDiscover)>>) }

\* A datagram in buf, by its length and its last bytes.
Bytes(n, tail) == [n |-> n, tail |-> tail]

\* buf before the first recv_from.
NoDatagram == Bytes(0, <<>>)

\* let mut buf = [0u8; 2048]
BufLen == 2048

CR == 13
LF == 10
CRLF == <<CR, LF>>

\* slice.ends_with(suffix), on the last bytes kept.
EndsWith(tail, suffix) ==
    /\ Len(tail) >= Len(suffix)
    /\ SubSeq(tail, Len(tail) - Len(suffix) + 1, Len(tail)) = suffix

\* The last four bytes of t, or all of it if shorter.
LastFour(t) == IF Len(t) <= 4 THEN t ELSE SubSeq(t, Len(t) - 3, Len(t))

\* The partial-request workaround on the datagram r: buf[n] = '\r',
\* buf[n + 1] = '\n', n += 2 under its three conditions, else nothing.
Fixup(workaround, r) ==
    IF /\ workaround
       /\ EndsWith(r.tail, CRLF)
       /\ ~EndsWith(r.tail, CRLF \o CRLF)
       /\ r.n < BufLen - 2
    THEN Bytes(r.n + 2, LastFour(r.tail \o CRLF))
    ELSE r

\* The datagrams recv_from can leave in buf: lengths at both ends of the
\* buffer, and every ending over CR, LF and one other byte.
RawLengths == {0, 1, 2, 3, 4, BufLen - 4, BufLen - 3, BufLen - 2, BufLen - 1, BufLen}

RawDatagrams ==
    UNION {{Bytes(n, t) : t \in [1..(IF n < 4 THEN n ELSE 4) -> {CR, LF, 120}]} : n \in RawLengths}

\* ------------------------------------------------------------------- state

VARIABLES
    devices,      \* Server.devices, in registration order
    max_age,      \* Server.max_age
    servePc,      \* the serving future: "created", "running" (at recv_from),
                  \* "dispatch" (a datagram is in buf), "completed", "dropped"
    serveResult,  \* the serving future's output: <<"Pending">>, or <<"Err", its source>>
    notify_tx,    \* _notify_alive_tx and _notify_byebye_tx: "none", "live", "dropped"
    req,          \* the request parsed from buf
    addr,         \* the sender recv_from returned
    recvCount,    \* datagrams received so far
    lastLog,      \* what the dispatch loop logged for the last datagram
    replies,      \* the reply tasks handle_search spawned, in spawn order
    alivePc,      \* the alive task: "unspawned", "begin", "send", "pace", "wait", "done"
    aliveIdx,     \* the device broadcast_alive is at
    aliveSent,    \* the alive messages sent in the current cycle
    aliveSleep,   \* the duration of the sleep the alive task is in, in milliseconds
    aliveLog,     \* what the alive task logged last
    byePc,        \* the byebye task: "unspawned", "await", "send", "pace", "done"
    byeIdx,       \* the device broadcast_byebye is at
    byeSent,      \* the byebye messages sent
    byeLog,       \* what the byebye task logged last
    headers,      \* Server.headers, the extra headers in the order they were added
    partial_req_workaround,  \* Server.partial_req_workaround
    raw,          \* the datagram as recv_from left it in buf: its length n and
                  \* its last bytes (at most four)
    buf           \* buf[..n] as req.parse is given it, in the same form

vars == <<devices, max_age, servePc, serveResult, notify_tx, req, addr, recvCount,
          lastLog, replies, alivePc, aliveIdx, aliveSent, aliveSleep, aliveLog,
          byePc, byeIdx, byeSent, byeLog, headers, partial_req_workaround, raw, buf>>

configVars == <<devices, max_age, headers, partial_req_workaround>>
bufVars == <<raw, buf>>
serveVars == <<servePc, serveResult, notify_tx, req, addr, recvCount, lastLog>>
aliveVars == <<alivePc, aliveIdx, aliveSent, aliveSleep, aliveLog>>
byeVars == <<byePc, byeIdx, byeSent, byeLog>>

\* ----------------------------------------------------------- handle_search

\* The header loop of handle_search from header i on: st, mx and man_found so
\* far in acc; the first invalid MX or MAN header ends it with an error.
RECURSIVE ScanHeaders(_, _, _)
ScanHeaders(hs, i, acc) ==
    IF i > Len(hs) THEN acc
    ELSE LET h == hs[i] IN
         IF EqIgnoreAsciiCase(h.name, LitSt)
         THEN ScanHeaders(hs, i + 1, [acc EXCEPT !.st = Some(h.value)])
         ELSE IF EqIgnoreAsciiCase(h.name, LitMx)
         THEN LET val == ParseU32(h.value)
              IN  IF val.ok
                  THEN ScanHeaders(hs, i + 1, [acc EXCEPT !.mx = [hi |-> val.hi, lo |-> val.lo]])
                  ELSE [acc EXCEPT !.err = "MX"]
         ELSE IF EqIgnoreAsciiCase(h.name, LitMan)
         THEN IF h.value # LitDiscover
              THEN [acc EXCEPT !.err = "MAN != \"ssdp:discover\""]
              ELSE ScanHeaders(hs, i + 1, [acc EXCEPT !.man_found = TRUE])
         ELSE ScanHeaders(hs, i + 1, acc)

\* FindDevice taking the last match, as iter().rev().find(..) would.
FindDeviceLast(ds, st) ==
    LET hits == {i \in 1..Len(ds) : EqIgnoreAsciiCase(ds[i].search_target, st)}
    IN  IF hits = {} THEN 0 ELSE CHOOSE i \in hits : \A j \in hits : j <= i

\* FindDevice comparing with ==, case and all.
FindDeviceExact(ds, st) ==
    LET hits == {i \in 1..Len(ds) : ds[i].search_target = st}
    IN  IF hits = {} THEN 0 ELSE CHOOSE i \in hits : \A j \in hits : i <= j

\* self.devices.iter().find(..): the index of the first device whose search
\* target equals st ignoring ASCII case, 0 when there is none.
FindDevice(ds, st) ==
    LET hits == {i \in 1..Len(ds) : EqIgnoreAsciiCase(ds[i].search_target, st)}
    IN  IF hits = {} THEN 0 ELSE CHOOSE i \in hits : \A j \in hits : i <= j

\* The response text format! builds, by its fields.
Response(d, age) ==
    [status |-> "HTTP/1.1 200 OK", max_age |-> age, location |-> d.location,
     st |-> d.search_target, usn |-> d.usn]

\* The task tokio::spawn is given: the response, the address and mx moved in.
ReplyTask(response, remote_addr, mx) ==
    [response |-> response, remote_addr |-> remote_addr, mx |-> mx,
     pc |-> "spawned", wait |-> 0]

\* handle_search with mx starting at 1, not 0.
HandleSearchMxFromOne(ds, age, hs, remote_addr) ==
    LET scan == ScanHeaders(hs, 1, [st |-> None, mx |-> [U32Zero EXCEPT !.lo = 1], man_found |-> FALSE, err |-> ""])
        dev == FindDevice(ds, scan.st[1])
    IN  IF scan.err # "" THEN [err |-> scan.err, spawn |-> <<>>]
        ELSE IF ~scan.man_found THEN [err |-> "MAN header not found", spawn |-> <<>>]
        ELSE IF scan.st = None THEN [err |-> "ST header not found", spawn |-> <<>>]
        ELSE IF dev = 0 THEN [err |-> "", spawn |-> <<>>]
        ELSE [err |-> "", spawn |-> <<ReplyTask(Response(ds[dev], age), remote_addr, scan.mx)>>]

\* handle_search without its `if !man_found` check.
HandleSearchNoManCheck(ds, age, hs, remote_addr) ==
    LET scan == ScanHeaders(hs, 1, [st |-> None, mx |-> U32Zero, man_found |-> FALSE, err |-> ""])
        dev == FindDevice(ds, scan.st[1])
    IN  IF scan.err # "" THEN [err |-> scan.err, spawn |-> <<>>]
        ELSE IF scan.st = None THEN [err |-> "ST header not found", spawn |-> <<>>]
        ELSE IF dev = 0 THEN [err |-> "", spawn |-> <<>>]
        ELSE [err |-> "", spawn |-> <<ReplyTask(Response(ds[dev], age), remote_addr, scan.mx)>>]

\* handle_search returning an error when no device matches.
HandleSearchNoMatchErr(ds, age, hs, remote_addr) ==
    LET scan == ScanHeaders(hs, 1, [st |-> None, mx |-> U32Zero, man_found |-> FALSE, err |-> ""])
        dev == FindDevice(ds, scan.st[1])
    IN  IF scan.err # "" THEN [err |-> scan.err, spawn |-> <<>>]
        ELSE IF ~scan.man_found THEN [err |-> "MAN header not found", spawn |-> <<>>]
        ELSE IF scan.st = None THEN [err |-> "ST header not found", spawn |-> <<>>]
        ELSE IF dev = 0 THEN [err |-> "no device", spawn |-> <<>>]
        ELSE [err |-> "", spawn |-> <<ReplyTask(Response(ds[dev], age), remote_addr, scan.mx)>>]

\* handle_search: err is "" for Ok(()), spawn the tasks it spawned.
HandleSearch(ds, age, hs, remote_addr) ==
    LET scan == ScanHeaders(hs, 1, [st |-> None, mx |-> U32Zero, man_found |-> FALSE, err |-> ""])
        dev == FindDevice(ds, scan.st[1])
    IN  IF scan.err # "" THEN [err |-> scan.err, spawn |-> <<>>]
        ELSE IF ~scan.man_found THEN [err |-> "MAN header not found", spawn |-> <<>>]
        ELSE IF scan.st = None THEN [err |-> "ST header not found", spawn |-> <<>>]
        ELSE IF dev = 0 THEN [err |-> "", spawn |-> <<>>]
        ELSE [err |-> "", spawn |-> <<ReplyTask(Response(ds[dev], age), remote_addr, scan.mx)>>]

\* DispatchOutcome with `?` on handle_search's result: its Err ends the loop.
DispatchOutcomePropagate(ds, age, r, remote_addr) ==
    IF r.status # "Complete" THEN [log |-> <<>>, spawn |-> <<>>, ret |-> "continue"]
    ELSE IF r.method = None THEN [log |-> <<>>, spawn |-> <<>>, ret |-> "continue"]
    ELSE IF r.path = None THEN [log |-> <<>>, spawn |-> <<>>, ret |-> "continue"]
    ELSE IF r.method[1] = "M-SEARCH" /\ r.path[1] = "*"
    THEN LET res == HandleSearch(ds, age, r.headers, remote_addr)
         IN  [log |-> <<>>, spawn |-> res.spawn,
              ret |-> IF res.err # "" THEN res.err ELSE "continue"]
    ELSE IF r.method[1] = "NOTIFY" /\ r.path[1] = "*"
    THEN [log |-> <<"NOTIFY *">>, spawn |-> <<>>, ret |-> "continue"]
    ELSE [log |-> <<"Unknown SSDP request">>, spawn |-> <<>>, ret |-> "continue"]

\* One iteration of the dispatch loop after recv_from: what it logs, the tasks
\* it spawns, and how the iteration ends ("continue": back to recv_from; every
\* arm does). Err from handle_search is logged, not returned.
DispatchOutcome(ds, age, r, remote_addr) ==
    IF r.status # "Complete" THEN [log |-> <<>>, spawn |-> <<>>, ret |-> "continue"]
    ELSE IF r.method = None THEN [log |-> <<>>, spawn |-> <<>>, ret |-> "continue"]
    ELSE IF r.path = None THEN [log |-> <<>>, spawn |-> <<>>, ret |-> "continue"]
    ELSE IF r.method[1] = "M-SEARCH" /\ r.path[1] = "*"
    THEN LET res == HandleSearch(ds, age, r.headers, remote_addr)
         IN  [log |-> IF res.err # "" THEN <<"Handle search failed", res.err>> ELSE <<>>,
              spawn |-> res.spawn, ret |-> "continue"]
    ELSE IF r.method[1] = "NOTIFY" /\ r.path[1] = "*"
    THEN [log |-> <<"NOTIFY *">>, spawn |-> <<>>, ret |-> "continue"]
    ELSE [log |-> <<"Unknown SSDP request">>, spawn |-> <<>>, ret |-> "continue"]

\* ------------------------------------------------------ the serving future

Init ==
    /\ devices \in PlainRegistries
    /\ max_age \in MaxAges
    /\ servePc = "created"
    /\ serveResult = <<"Pending">>
    /\ notify_tx = "none"
    /\ req = NoRequest
    /\ addr = "none"
    /\ recvCount = 0
    /\ lastLog = <<>>
    /\ replies = <<>>
    /\ alivePc = "unspawned"
    /\ aliveIdx = 0
    /\ aliveSent = <<>>
    /\ aliveSleep = None
    /\ aliveLog = ""
    /\ byePc = "unspawned"
    /\ byeIdx = 0
    /\ byeSent = <<>>
    /\ byeLog = ""
    /\ headers = <<>>
    /\ partial_req_workaround = FALSE
    /\ raw = NoDatagram
    /\ buf = NoDatagram

\* Start with the senders bound to `_`, which drops them at once.
StartSendersDropped ==
    /\ servePc = "created"
    /\ servePc' = "running"
    /\ notify_tx' = "dropped"
    /\ alivePc' = "begin"
    /\ byePc' = "await"
    /\ UNCHANGED <<configVars, bufVars, serveResult, req, addr, recvCount, lastLog, replies,
                   aliveIdx, aliveSent, aliveSleep, aliveLog, byeIdx, byeSent, byeLog>>

\* The first poll of the serving future: both channels are made, both tasks
\* spawned, and the loop waits in recv_from.
Start ==
    /\ servePc = "created"
    /\ servePc' = "running"
    /\ notify_tx' = "live"
    /\ alivePc' = "begin"
    /\ byePc' = "await"
    /\ UNCHANGED <<configVars, bufVars, serveResult, req, addr, recvCount, lastLog, replies,
                   aliveIdx, aliveSent, aliveSleep, aliveLog, byeIdx, byeSent, byeLog>>

\* RecvFrom for a loop that awaits each reply's delay and send itself.
RecvFromAfterReplies(d, a) ==
    /\ servePc = "running"
    /\ recvCount < MaxRecv
    /\ \A i \in 1..Len(replies) : replies[i].pc \in {"sent", "failed"}
    /\ servePc' = "dispatch"
    /\ req' = d
    /\ addr' = a
    /\ recvCount' = recvCount + 1
    /\ UNCHANGED <<configVars, bufVars, serveResult, notify_tx, lastLog, replies, aliveVars, byeVars>>

\* recv_from returns datagram d sent by a.
RecvFrom(d, a) ==
    /\ servePc = "running"
    /\ recvCount < MaxRecv
    /\ servePc' = "dispatch"
    /\ req' = d
    /\ addr' = a
    /\ recvCount' = recvCount + 1
    /\ UNCHANGED <<configVars, bufVars, serveResult, notify_tx, lastLog, replies, aliveVars, byeVars>>

\* recv_from returns the bytes r sent by a, the workaround is applied to
\* them, and req.parse reads d from the result.
RecvBytes(r, d, a) ==
    /\ servePc = "running"
    /\ recvCount < MaxRecv
    /\ servePc' = "dispatch"
    /\ raw' = r
    /\ buf' = Fixup(partial_req_workaround, r)
    /\ req' = d
    /\ addr' = a
    /\ recvCount' = recvCount + 1
    /\ UNCHANGED <<configVars, serveResult, notify_tx, lastLog, replies, aliveVars, byeVars>>

\* recv_from returns an error: `?` ends the future with it, which drops both
\* senders.
RecvErr ==
    /\ servePc = "running"
    /\ servePc' = "completed"
    /\ serveResult' = <<"Err", "recv_from">>
    /\ notify_tx' = "dropped"
    /\ UNCHANGED <<configVars, bufVars, req, addr, recvCount, lastLog, replies, aliveVars, byeVars>>

\* The caller drops the serving future while it waits: its locals, the two
\* senders among them, are dropped.
DropFuture ==
    /\ servePc \in {"created", "running"}
    /\ servePc' = "dropped"
    /\ notify_tx' = IF notify_tx = "live" THEN "dropped" ELSE notify_tx
    /\ UNCHANGED <<configVars, bufVars, serveResult, req, addr, recvCount, lastLog, replies,
                   aliveVars, byeVars>>

\* The rest of the loop body: parse, match on (method, path), handle_search;
\* then back to recv_from. Only a `?` would end the future from here, with the
\* error it carries, dropping the senders.
Dispatch ==
    /\ servePc = "dispatch"
    /\ LET out == DispatchOutcome(devices, max_age, req, addr)
       IN  /\ lastLog' = out.log
           /\ replies' = replies \o out.spawn
           /\ IF out.ret = "continue"
              THEN servePc' = "running" /\ UNCHANGED <<serveResult, notify_tx>>
              ELSE /\ servePc' = "completed"
                   /\ serveResult' = <<"Err", out.ret>>
                   /\ notify_tx' = "dropped"
    /\ UNCHANGED <<configVars, bufVars, req, addr, recvCount, aliveVars, byeVars>>

\* ------------------------------------------------------------ reply tasks

\* The delays with gen_range(0..=mx).
ReplyDelaysInclusive(mx) == IF U32Positive(mx) THEN 0..U32MinCap(mx) ELSE {}

\* The delays rng.gen_range(0..mx) can give after mx = mx.min(3); no sleep
\* when mx is 0.
ReplyDelays(mx) == IF U32Positive(mx) THEN 0..(U32MinCap(mx) - 1) ELSE {}

\* ReplyStart of a task that is dropped, never polled, once the senders are
\* dropped.
ReplyStartUnlessShutdown(i) ==
    /\ i \in 1..Len(replies)
    /\ replies[i].pc = "spawned"
    /\ notify_tx # "dropped"
    /\ IF U32Positive(replies[i].mx)
       THEN \E w \in ReplyDelays(replies[i].mx) :
                replies' = [replies EXCEPT ![i].pc = "sleeping", ![i].wait = w]
       ELSE replies' = [replies EXCEPT ![i].pc = "sending"]
    /\ UNCHANGED <<configVars, bufVars, serveVars, aliveVars, byeVars>>

\* The first poll of reply task i: it draws its delay and sleeps, or, with
\* mx = 0, goes straight to send_to.
ReplyStart(i) ==
    /\ i \in 1..Len(replies)
    /\ replies[i].pc = "spawned"
    /\ IF U32Positive(replies[i].mx)
       THEN \E w \in ReplyDelays(replies[i].mx) :
                replies' = [replies EXCEPT ![i].pc = "sleeping", ![i].wait = w]
       ELSE replies' = [replies EXCEPT ![i].pc = "sending"]
    /\ UNCHANGED <<configVars, bufVars, serveVars, aliveVars, byeVars>>

\* ReplySendOk sending to the sender of the datagram the loop received last.
ReplySendOkLastSender(i) ==
    /\ i \in 1..Len(replies)
    /\ replies[i].pc \in {"sleeping", "sending"}
    /\ replies' = [replies EXCEPT ![i].pc = "sent", ![i].remote_addr = addr]
    /\ UNCHANGED <<configVars, bufVars, serveVars, aliveVars, byeVars>>

\* send_to(response, remote_addr) of reply task i, after its sleep if it had
\* one; the task ends.
ReplySendOk(i) ==
    /\ i \in 1..Len(replies)
    /\ replies[i].pc \in {"sleeping", "sending"}
    /\ replies' = [replies EXCEPT ![i].pc = "sent"]
    /\ UNCHANGED <<configVars, bufVars, serveVars, aliveVars, byeVars>>

\* send_to fails: the error is logged and the task ends.
ReplySendFail(i) ==
    /\ i \in 1..Len(replies)
    /\ replies[i].pc \in {"sleeping", "sending"}
    /\ replies' = [replies EXCEPT ![i].pc = "failed"]
    /\ UNCHANGED <<configVars, bufVars, serveVars, aliveVars, byeVars>>

\* ------------------------------------------------------------ message text

\* The header names of the three format! templates.
NameCacheControl == <<67, 65, 67, 72, 69, 45, 67, 79, 78, 84, 82, 79, 76>>
NameDate == <<68, 65, 84, 69>>
NameExt == <<69, 88, 84>>
NameHost == <<72, 79, 83, 84>>
NameLocation == <<76, 79, 67, 65, 84, 73, 79, 78>>
NameNt == <<78, 84>>
NameNts == <<78, 84, 83>>
NameServer == <<83, 69, 82, 86, 69, 82>>
NameSt == <<83, 84>>
NameUsn == <<85, 83, 78>>

\* A message as its lines, each ended by "\r\n": the start line, the header
\* lines "name: value" and the empty line.
Line(kind, name, value) == [kind |-> kind, name |-> name, value |-> value]
HeaderLine(name, value) == Line("header", name, value)
EmptyLine == Line("empty", <<>>, <<>>)

\* extra_headers: format!("{}: {}\r\n", name, value) of every configured
\* header, joined in order.
ExtraHeaders(hs) == [i \in 1..Len(hs) |-> HeaderLine(hs[i].name, hs[i].value)]

\* The text of the search response r, as handle_search formats it.
ResponseText(r, hs) ==
    <<Line("start", <<>>, <<r.status>>),
      HeaderLine(NameCacheControl, <<"max-age=", r.max_age>>),
      HeaderLine(NameDate, <<"fmt_http_date(now)">>),
      HeaderLine(NameExt, <<>>),
      HeaderLine(NameLocation, r.location),
      HeaderLine(NameServer, <<"server">>),
      HeaderLine(NameSt, r.st),
      HeaderLine(NameUsn, r.usn)>> \o ExtraHeaders(hs) \o <<EmptyLine>>

\* The text of the alive message m, as broadcast_alive formats it.
AliveText(m, hs) ==
    <<Line("start", <<>>, <<"NOTIFY * HTTP/1.1">>),
      HeaderLine(NameHost, <<m.to>>),
      HeaderLine(NameCacheControl, <<"max-age=", m.max_age>>),
      HeaderLine(NameLocation, m.location),
      HeaderLine(NameNt, m.nt),
      HeaderLine(NameNts, <<m.nts>>),
      HeaderLine(NameServer, <<"server">>),
      HeaderLine(NameUsn, m.usn)>> \o ExtraHeaders(hs) \o <<EmptyLine>>

\* The text of the byebye message m, as broadcast_byebye formats it.
ByebyeText(m, hs) ==
    <<Line("start", <<>>, <<"NOTIFY * HTTP/1.1">>),
      HeaderLine(NameHost, <<m.to>>),
      HeaderLine(NameNt, m.nt),
      HeaderLine(NameNts, <<m.nts>>),
      HeaderLine(NameUsn, m.usn)>> \o ExtraHeaders(hs) \o <<EmptyLine>>

\* The extra headers a server is configured with: CONFIGID.UPNP.ORG: 1 and
\* usn: x, none, one or two of them.
ExtraHeaderPool ==
    { Header(<<67, 79, 78, 70, 73, 71, 73, 68, 46, 85, 80, 78, 80, 46, 79, 82, 71>>, <<"1">>),
      Header(<<117, 115, 110>>, <<"x">>) }

ExtraHeaderLists ==
    {<<>>} \cup {<<h>> : h \in ExtraHeaderPool} \cup {<<h, g>> : h, g \in ExtraHeaderPool}

\* ------------------------------------------------------------- alive task

Multicast == "239.255.255.250:1900"

\* AliveMessage advertising Server::new's max_age whatever was configured.
AliveMessageDefaultAge(d, age) ==
    [to |-> Multicast, max_age |-> DefaultMaxAge, location |-> d.location,
     nt |-> d.search_target, nts |-> "ssdp:alive", usn |-> d.usn]

\* The alive message of broadcast_alive, by its fields.
AliveMessage(d, age) ==
    [to |-> Multicast, max_age |-> age, location |-> d.location,
     nt |-> d.search_target, nts |-> "ssdp:alive", usn |-> d.usn]

\* The byebye message of broadcast_byebye, by its fields.
ByebyeMessage(d) ==
    [to |-> Multicast, nt |-> d.search_target, nts |-> "ssdp:alive", usn |-> d.usn]

\* tokio::time::sleep(Duration::from_secs(max_age)) of the select!
WaitSleep(age) == Some(age * 1000)

\* The top of the loop: broadcast_alive starts; with no device it returns at
\* once and the task waits in select!.
AliveBegin ==
    /\ alivePc = "begin"
    /\ aliveSent' = <<>>
    /\ aliveLog' = ""
    /\ IF Len(devices) = 0
       THEN alivePc' = "wait" /\ aliveIdx' = 0 /\ aliveSleep' = WaitSleep(max_age)
       ELSE alivePc' = "send" /\ aliveIdx' = 1 /\ aliveSleep' = None
    /\ UNCHANGED <<configVars, bufVars, serveVars, replies, byeVars>>

\* send_to of the alive message of device aliveIdx, then the pause.
AliveSendOk ==
    /\ alivePc = "send"
    /\ aliveSent' = Append(aliveSent, AliveMessage(devices[aliveIdx], max_age))
    /\ alivePc' = "pace"
    /\ aliveSleep' = Some(PaceMillis)
    /\ UNCHANGED <<configVars, bufVars, serveVars, replies, aliveIdx, aliveLog, byeVars>>

\* AliveSendFail with the error returned from the task instead of logged.
AliveSendFailReturn ==
    /\ alivePc = "send"
    /\ aliveLog' = "Send alive messages failed"
    /\ alivePc' = "done"
    /\ aliveIdx' = 0
    /\ aliveSleep' = None
    /\ UNCHANGED <<configVars, bufVars, serveVars, replies, aliveSent, byeVars>>

\* send_to fails: `?` ends broadcast_alive, the loop logs the error and
\* waits in select!.
AliveSendFail ==
    /\ alivePc = "send"
    /\ aliveLog' = "Send alive messages failed"
    /\ alivePc' = "wait"
    /\ aliveIdx' = 0
    /\ aliveSleep' = WaitSleep(max_age)
    /\ UNCHANGED <<configVars, bufVars, serveVars, replies, aliveSent, byeVars>>

\* The pause ends: the next device, or, after the last, select!.
AlivePace ==
    /\ alivePc = "pace"
    /\ IF aliveIdx < Len(devices)
       THEN alivePc' = "send" /\ aliveIdx' = aliveIdx + 1 /\ aliveSleep' = None
       ELSE alivePc' = "wait" /\ aliveIdx' = 0 /\ aliveSleep' = WaitSleep(max_age)
    /\ UNCHANGED <<configVars, bufVars, serveVars, replies, aliveSent, aliveLog, byeVars>>

\* select!: the sleep branch.
AliveWake ==
    /\ alivePc = "wait"
    /\ alivePc' = "begin"
    /\ aliveSleep' = None
    /\ UNCHANGED <<configVars, bufVars, serveVars, replies, aliveIdx, aliveSent, aliveLog, byeVars>>

\* AliveShutdown of a select! that polls the sleep first: the shutdown branch
\* is taken only when the sleep is not ready at once.
AliveShutdownBiased ==
    /\ alivePc = "wait"
    /\ notify_tx = "dropped"
    /\ max_age > 0
    /\ alivePc' = "done"
    /\ aliveSleep' = None
    /\ aliveLog' = "notify_alive shutdown"
    /\ UNCHANGED <<configVars, bufVars, serveVars, replies, aliveIdx, aliveSent, byeVars>>

\* AliveShutdown without its return: the branch logs and the loop goes on.
AliveShutdownNoReturn ==
    /\ alivePc = "wait"
    /\ notify_tx = "dropped"
    /\ alivePc' = "begin"
    /\ aliveSleep' = None
    /\ aliveLog' = "notify_alive shutdown"
    /\ UNCHANGED <<configVars, bufVars, serveVars, replies, aliveIdx, aliveSent, byeVars>>

\* select!: the notify_alive_rx branch, ready once the sender is dropped.
AliveShutdown ==
    /\ alivePc = "wait"
    /\ notify_tx = "dropped"
    /\ alivePc' = "done"
    /\ aliveSleep' = None
    /\ aliveLog' = "notify_alive shutdown"
    /\ UNCHANGED <<configVars, bufVars, serveVars, replies, aliveIdx, aliveSent, byeVars>>

\* ------------------------------------------------------------ byebye task

\* ByebyeWake not waiting for the sender to be dropped.
ByebyeWakeEarly ==
    /\ byePc = "await"
    /\ IF Len(devices) = 0
       THEN byePc' = "done" /\ byeIdx' = 0
       ELSE byePc' = "send" /\ byeIdx' = 1
    /\ UNCHANGED <<configVars, bufVars, serveVars, replies, aliveVars, byeSent, byeLog>>

\* notify_byebye_rx.await returns once the sender is dropped;
\* broadcast_byebye starts.
ByebyeWake ==
    /\ byePc = "await"
    /\ notify_tx = "dropped"
    /\ IF Len(devices) = 0
       THEN byePc' = "done" /\ byeIdx' = 0
       ELSE byePc' = "send" /\ byeIdx' = 1
    /\ UNCHANGED <<configVars, bufVars, serveVars, replies, aliveVars, byeSent, byeLog>>

\* send_to of the byebye message of device byeIdx, then the pause.
ByebyeSendOk ==
    /\ byePc = "send"
    /\ byeSent' = Append(byeSent, ByebyeMessage(devices[byeIdx]))
    /\ byePc' = "pace"
    /\ UNCHANGED <<configVars, bufVars, serveVars, replies, aliveVars, byeIdx, byeLog>>

\* ByebyeSendFail going on to the pause and the next device.
ByebyeSendFailContinue ==
    /\ byePc = "send"
    /\ byeLog' = "Send byebye messages failed"
    /\ byePc' = "pace"
    /\ UNCHANGED <<configVars, bufVars, serveVars, replies, aliveVars, byeIdx, byeSent>>

\* send_to fails: `?` ends broadcast_byebye, the task logs the error and ends.
ByebyeSendFail ==
    /\ byePc = "send"
    /\ byeLog' = "Send byebye messages failed"
    /\ byePc' = "done"
    /\ byeIdx' = 0
    /\ UNCHANGED <<configVars, bufVars, serveVars, replies, aliveVars, byeSent>>

\* ByebyePace starting the broadcast over after the last device, as the alive
\* loop does.
ByebyePaceAgain ==
    /\ byePc = "pace"
    /\ Len(byeSent) <= Len(devices)
    /\ byePc' = "send"
    /\ byeIdx' = IF byeIdx < Len(devices) THEN byeIdx + 1 ELSE 1
    /\ UNCHANGED <<configVars, bufVars, serveVars, replies, aliveVars, byeSent, byeLog>>

\* The pause ends: the next device, or, after the last, the task ends.
ByebyePace ==
    /\ byePc = "pace"
    /\ IF byeIdx < Len(devices)
       THEN byePc' = "send" /\ byeIdx' = byeIdx + 1
       ELSE byePc' = "done" /\ byeIdx' = 0
    /\ UNCHANGED <<configVars, bufVars, serveVars, replies, aliveVars, byeSent, byeLog>>

\* ---------------------------------------------------------- specifications

RecvAny == \E d \in Datagrams, a \in Addrs : RecvFrom(d, a)

ReplyStep == \E i \in 1..MaxRecv : ReplyStart(i) \/ ReplySendOk(i) \/ ReplySendFail(i)

AliveStep ==
    AliveBegin \/ AliveSendOk \/ AliveSendFail \/ AlivePace \/ AliveWake \/ AliveShutdown

ByebyeStep == ByebyeWake \/ ByebyeSendOk \/ ByebyeSendFail \/ ByebyePace

\* The whole server.
Next ==
    \/ Start
    \/ RecvAny
    \/ Dispatch
    \/ RecvErr
    \/ DropFuture
    \/ ReplyStep
    \/ AliveStep
    \/ ByebyeStep

Spec == Init /\ [][Next]_vars

\* The lifecycle: the serving future with the alive and byebye tasks, the
\* loop receiving only datagrams that spawn no reply. The reply tasks read
\* and write `replies` alone, so leaving them out changes nothing here.
NoiseDatagrams == {d \in Datagrams : d.method # Some("M-SEARCH")}

RecvNoise == \E d \in NoiseDatagrams, a \in Addrs : RecvFrom(d, a)

LifeNext ==
    \/ Start
    \/ RecvNoise
    \/ Dispatch
    \/ RecvErr
    \/ DropFuture
    \/ AliveStep
    \/ ByebyeStep

LifeSpec == Init /\ [][LifeNext]_vars

\* The runtime polls a spawned task that can run, and timers fire.
FairLifeSpec == LifeSpec /\ WF_vars(AliveStep) /\ WF_vars(ByebyeStep)

\* select! polls its ready branches in random order: a branch that is ready at
\* wait after wait is taken in the end.
StrongLifeSpec ==
    LifeSpec /\ WF_vars(AliveStep) /\ WF_vars(ByebyeStep) /\ SF_vars(AliveShutdown)

\* The dispatch loop and the reply tasks, the alive and byebye tasks spawned
\* but not scheduled: they read the registry, max_age and notify_tx and write
\* their own variables alone.
DispatchNext ==
    \/ Start
    \/ RecvAny
    \/ Dispatch
    \/ RecvErr
    \/ DropFuture
    \/ ReplyStep

DispatchSpec == Init /\ [][DispatchNext]_vars

\* The reply tasks next to everything that ends: the loop receives searches
\* that pass validation, one with MX 2 and one without MX, and the alive and
\* byebye tasks run; one sender is enough here. The runtime polls every
\* spawned task that can run.
ValidSearches ==
    {d \in Datagrams : /\ d.status = "Complete"
                       /\ d.method = Some("M-SEARCH")
                       /\ d.path = Some("*")
                       /\ HandleSearch(<<>>, DefaultMaxAge, d.headers, "none").err = ""}

RecvSearch == \E d \in ValidSearches : RecvFrom(d, "10.0.0.1:5000")

ReplyLifeNext ==
    \/ Start
    \/ RecvSearch
    \/ Dispatch
    \/ RecvErr
    \/ DropFuture
    \/ ReplyStep
    \/ AliveStep
    \/ ByebyeStep

\* One registered device, "a" or "B": the first search matches the one, the
\* second the other.
ReplyLifeInit ==
    /\ Init
    /\ devices \in {r \in Registries : Len(r) = 1}
    /\ max_age = DefaultMaxAge

ReplyLifeSpec ==
    /\ ReplyLifeInit
    /\ [][ReplyLifeNext]_vars
    /\ WF_vars(AliveStep)
    /\ WF_vars(ByebyeStep)
    /\ \A i \in 1..MaxRecv : WF_vars(ReplyStart(i)) /\ WF_vars(ReplySendOk(i) \/ ReplySendFail(i))

\* The receive buffer: the server with the workaround enabled or not, every
\* datagram of RawDatagrams received, httparse finding no complete request or
\* a NOTIFY in it.
FixupInit ==
    /\ devices = <<>>
    /\ max_age = DefaultMaxAge
    /\ servePc = "created"
    /\ serveResult = <<"Pending">>
    /\ notify_tx = "none"
    /\ req = NoRequest
    /\ addr = "none"
    /\ recvCount = 0
    /\ lastLog = <<>>
    /\ replies = <<>>
    /\ alivePc = "unspawned"
    /\ aliveIdx = 0
    /\ aliveSent = <<>>
    /\ aliveSleep = None
    /\ aliveLog = ""
    /\ byePc = "unspawned"
    /\ byeIdx = 0
    /\ byeSent = <<>>
    /\ byeLog = ""
    /\ headers = <<>>
    /\ partial_req_workaround \in BOOLEAN
    /\ raw = NoDatagram
    /\ buf = NoDatagram

RecvAnyBytes ==
    \E r \in RawDatagrams :
        \E d \in {Request("Partial", None, None, <<>>),
                  Request("Complete", Some("NOTIFY"), Some("*"), <<>>)} :
            RecvBytes(r, d, "10.0.0.1:5000")

FixupNext ==
    \/ Start
    \/ RecvAnyBytes
    \/ Dispatch
    \/ RecvErr

FixupSpec == FixupInit /\ [][FixupNext]_vars

\* The messages of a server configured with extra headers: one device, the
\* searches that pass validation, the alive and byebye tasks.
FormatInit ==
    /\ devices \in {r \in Registries : Len(r) = 1}
    /\ max_age = DefaultMaxAge
    /\ servePc = "created"
    /\ serveResult = <<"Pending">>
    /\ notify_tx = "none"
    /\ req = NoRequest
    /\ addr = "none"
    /\ recvCount = 0
    /\ lastLog = <<>>
    /\ replies = <<>>
    /\ alivePc = "unspawned"
    /\ aliveIdx = 0
    /\ aliveSent = <<>>
    /\ aliveSleep = None
    /\ aliveLog = ""
    /\ byePc = "unspawned"
    /\ byeIdx = 0
    /\ byeSent = <<>>
    /\ byeLog = ""
    /\ headers \in ExtraHeaderLists
    /\ partial_req_workaround = FALSE
    /\ raw = NoDatagram
    /\ buf = NoDatagram

FormatSpec == FormatInit /\ [][ReplyLifeNext]_vars

\* handle_search on every request over HeaderPool, for every registry: the
\* loop has received the request and is about to dispatch it.
SearchInit ==
    /\ devices \in Registries
    /\ max_age = DefaultMaxAge
    /\ servePc = "dispatch"
    /\ serveResult = <<"Pending">>
    /\ notify_tx = "live"
    /\ req \in {SearchRequest(hs) : hs \in HeaderLists}
    /\ addr \in Addrs
    /\ recvCount = 1
    /\ lastLog = <<>>
    /\ replies = <<>>
    /\ alivePc = "begin"
    /\ aliveIdx = 0
    /\ aliveSent = <<>>
    /\ aliveSleep = None
    /\ aliveLog = ""
    /\ byePc = "await"
    /\ byeIdx = 0
    /\ byeSent = <<>>
    /\ byeLog = ""
    /\ headers = <<>>
    /\ partial_req_workaround = FALSE
    /\ raw = NoDatagram
    /\ buf = NoDatagram

SearchNext ==
    \/ Dispatch
    \/ ReplyStep

SearchSpec == SearchInit /\ [][SearchNext]_vars

\* ------------------------------------------------- what the claims speak of
\* The claims' own reading of a request, stated apart from the code above:
\* case is folded upwards, an integer is read digit by digit without limbs.

FoldUpper(c) == IF c >= 97 /\ c <= 122 THEN c - 32 ELSE c

SameFolded(a, b) ==
    /\ DOMAIN a = DOMAIN b
    /\ [i \in DOMAIN a |-> FoldUpper(a[i])] = [i \in DOMAIN b |-> FoldUpper(b[i])]

IsSt(h) == SameFolded(h.name, <<83, 84>>)
IsMx(h) == SameFolded(h.name, <<77, 88>>)
IsMan(h) == SameFolded(h.name, <<77, 65, 78>>)

AllDigits(s) == \A i \in DOMAIN s : s[i] \in 48..57

\* A non-negative integer in decimal, with or without a leading '+'.
IsNonNegativeInteger(s) ==
    \/ Len(s) >= 1 /\ AllDigits(s)
    \/ Len(s) >= 2 /\ s[1] = 43 /\ AllDigits(Tail(s))

Digits(s) == IF Len(s) >= 1 /\ s[1] = 43 THEN Tail(s) ELSE s

RECURSIVE StripZeros(_)
StripZeros(s) == IF Len(s) >= 1 /\ s[1] = 48 THEN StripZeros(Tail(s)) ELSE s

RECURSIVE LexLeq(_, _)
LexLeq(a, b) ==
    IF Len(a) = 0 THEN TRUE
    ELSE IF a[1] # b[1] THEN a[1] < b[1]
    ELSE LexLeq(Tail(a), Tail(b))

\* "4294967295", the largest u32.
U32MaxLiteral == <<52, 50, 57, 52, 57, 54, 55, 50, 57, 53>>

\* An MX value the server accepts: a non-negative integer of at most 2^32 - 1.
MxParseable(s) ==
    /\ IsNonNegativeInteger(s)
    /\ LET d == StripZeros(Digits(s))
       IN  \/ Len(d) < Len(U32MaxLiteral)
           \/ Len(d) = Len(U32MaxLiteral) /\ LexLeq(d, U32MaxLiteral)

\* min(n, 3) of the integer a digit string denotes, never leaving 0..3.
RECURSIVE CappedValue(_, _)
CappedValue(s, v) ==
    IF Len(s) = 0 THEN v
    ELSE LET w == v * 10 + (s[1] - 48)
         IN  CappedValue(Tail(s), IF w > 3 THEN 3 ELSE w)

LastIndex(hs, P(_)) ==
    LET is == {i \in 1..Len(hs) : P(hs[i])}
    IN  IF is = {} THEN 0 ELSE CHOOSE i \in is : \A j \in is : j <= i

HasHeader(hs, P(_)) == \E i \in 1..Len(hs) : P(hs[i])

\* The ST of a request: its last ST header.
StOf(hs) == hs[LastIndex(hs, IsSt)].value

\* min(MX, 3) of a request: from its last MX header, 0 without one.
CappedMxOf(hs) ==
    IF HasHeader(hs, IsMx) THEN CappedValue(Digits(hs[LastIndex(hs, IsMx)].value), 0) ELSE 0

\* MAN correct, MX parseable, ST present.
WellFormed(hs) ==
    /\ \A i \in 1..Len(hs) : IsMx(hs[i]) => MxParseable(hs[i].value)
    /\ \A i \in 1..Len(hs) : IsMan(hs[i]) => hs[i].value = LitDiscover
    /\ HasHeader(hs, IsMan)
    /\ HasHeader(hs, IsSt)

\* The failures of validation claim C2 lists.
FailsValidation(hs) ==
    \/ \E i \in 1..Len(hs) : IsMx(hs[i]) /\ ~IsNonNegativeInteger(hs[i].value)
    \/ \E i \in 1..Len(hs) : IsMan(hs[i]) /\ hs[i].value # LitDiscover
    \/ ~HasHeader(hs, IsMan)
    \/ ~HasHeader(hs, IsSt)

DistinctTargets(ds) ==
    \A i, j \in 1..Len(ds) :
        i # j => ~SameFolded(ds[i].search_target, ds[j].search_target)

Matches(d, hs) == HasHeader(hs, IsSt) /\ SameFolded(d.search_target, StOf(hs))

\* The loop has dispatched the M-SEARCH * request now in req.
SearchHandled ==
    /\ servePc = "running"
    /\ req.status = "Complete"
    /\ req.method = Some("M-SEARCH")
    /\ req.path = Some("*")

\* ------------------------------------------------------------------ claims

C2_InvalidSearchReported ==
    (SearchHandled /\ FailsValidation(req.headers)) =>
        /\ replies = <<>>
        /\ Len(lastLog) = 2
        /\ lastLog[1] = "Handle search failed"

C2_Witness ==
    /\ SearchHandled
    /\ Len(req.headers) = 3
    /\ IsMan(req.headers[1]) /\ req.headers[1].value = LitDiscover
    /\ IsSt(req.headers[2])
    /\ IsMx(req.headers[3]) /\ ~IsNonNegativeInteger(req.headers[3].value)
    /\ \E k \in 1..Len(devices) : Matches(devices[k], req.headers)
    /\ lastLog = <<"Handle search failed", "MX">>

\* C3: a valid M-SEARCH * whose ST equals no device's search target, ignoring
\* case, spawns no reply and logs no error.
C3_NoMatchNoReply ==
    (/\ SearchHandled
     /\ WellFormed(req.headers)
     /\ \A k \in 1..Len(devices) : ~Matches(devices[k], req.headers)) =>
        /\ replies = <<>>
        /\ lastLog = <<>>

C3_Witness ==
    /\ SearchHandled
    /\ WellFormed(req.headers)
    /\ Len(devices) = 2
    /\ \A k \in 1..Len(devices) : ~Matches(devices[k], req.headers)
    /\ replies = <<>>

\* C4: a reply task that has drawn its delay sleeps for 0 seconds (goes
\* straight to its send) when MX is 0, and otherwise for a whole number of
\* seconds d with 0 <= d < min(MX, 3); never for more than 3.
C4_DelayBounded ==
    \A i \in 1..Len(replies) :
        replies[i].pc # "spawned" =>
            /\ replies[i].wait <= 3
            /\ IF CappedMxOf(req.headers) = 0
               THEN replies[i].wait = 0 /\ replies[i].pc # "sleeping"
               ELSE /\ replies[i].wait \in 0..(CappedMxOf(req.headers) - 1)
                    /\ replies[i].pc # "sending"

C4_Witness ==
    /\ Len(replies) = 1
    /\ replies[1].pc = "sent"
    /\ replies[1].wait = 2
    /\ HasHeader(req.headers, IsMx)
    /\ req.headers[LastIndex(req.headers, IsMx)].value = U32MaxLiteral

\* Both senders are dropped: the shutdown signal.
ShutdownSignalled == notify_tx = "dropped"

\* C5: if no byebye send fails, the byebye messages sent are those of devices
\* 1, 2, ... in registration order, never more than one per device, all N of
\* them once the byebye task has ended; and once shutdown is signalled the
\* task does run and end.
C5_ByebyeOncePerDevice ==
    /\ [](byeLog = "" =>
            /\ Len(byeSent) <= Len(devices)
            /\ \A i \in 1..Len(byeSent) :
                   /\ byeSent[i].usn = devices[i].usn
                   /\ byeSent[i].nt = devices[i].search_target
                   /\ byeSent[i].to = Multicast
            /\ (byePc = "done" => Len(byeSent) = Len(devices))
            /\ (byeSent # <<>> => ShutdownSignalled))
    /\ (ShutdownSignalled ~> (byePc = "done" /\ (byeLog = "" => Len(byeSent) = Len(devices))))

C5_Witness ==
    /\ ShutdownSignalled
    /\ byePc = "done"
    /\ byeLog = ""
    /\ Len(devices) = 2
    /\ Len(byeSent) = 2
    /\ byeSent[2].usn = <<"usn", 2>>

\* C6 as claimed: no step taken after the shutdown signal sends an alive
\* message.
C6_NoAliveAfterShutdown ==
    [][ShutdownSignalled => Len(aliveSent') # Len(aliveSent) + 1]_vars

\* C6 amended: the alive loop looks at the signal only in its wait. It ends
\* only from the wait and only when signalled; a broadcast under way when the
\* signal arrives goes on to its next send or to the wait; and once the loop
\* has taken the shutdown branch it sends nothing more.
C6_AliveStopsOnlyInWait ==
    [][ /\ (aliveLog = "notify_alive shutdown" =>
                alivePc' = "done" /\ aliveSent' = aliveSent)
        /\ (alivePc # "done" /\ alivePc' = "done" =>
                alivePc = "wait" /\ ShutdownSignalled /\ aliveLog' = "notify_alive shutdown")
        /\ (ShutdownSignalled /\ alivePc \in {"send", "pace"} =>
                alivePc' \in {"send", "pace", "wait"})
        /\ (ShutdownSignalled /\ alivePc = "pace" /\ alivePc' # "pace" /\ aliveIdx < Len(devices) =>
                alivePc' = "send" /\ aliveIdx' = aliveIdx + 1)
      ]_vars

\* The byebye broadcast has finished, so the signal is long past, and the alive
\* broadcast over two devices is still under way, its second send pending.
C6_Witness ==
    /\ ShutdownSignalled
    /\ Len(devices) = 2
    /\ byePc = "done" /\ Len(byeSent) = 2
    /\ alivePc = "send" /\ aliveIdx = 2
    /\ Len(aliveSent) = 1

\* C7 as claimed: when the serving future has completed, every device's
\* byebye message has been sent.
C7_ByebyeBeforeCompletion ==
    servePc = "completed" => Len(byeSent) = Len(devices)

\* C7 amended: the future completes first. When it completes the byebye task
\* is still waiting and has sent nothing, and every byebye send happens after
\* the future has completed or been dropped.
C7_ByebyeAfterCompletion ==
    [][ /\ (servePc # "completed" /\ servePc' = "completed" =>
                byePc' = "await" /\ byeSent' = <<>>)
        /\ (byeSent' # byeSent => servePc \in {"completed", "dropped"})
        /\ (byePc = "await" /\ byePc' # "await" => servePc \in {"completed", "dropped"})
      ]_vars

C7_Witness ==
    /\ servePc = "completed"
    /\ serveResult = <<"Err", "recv_from">>
    /\ Len(devices) = 2
    /\ byePc = "done"
    /\ Len(byeSent) = 2

\* C8: the alive loop starts with the server; in a cycle without a failed
\* send it sends the alive message of each device once, in registry order,
\* each with the configured max_age, then sleeps max_age seconds, sending
\* nothing while it waits; and every wait ends in a new cycle or, on
\* shutdown, in the end of the loop.
C8_AliveCycle ==
    /\ [](/\ Len(aliveSent) <= Len(devices)
          /\ \A i \in 1..Len(aliveSent) :
                 /\ aliveSent[i].usn = devices[i].usn
                 /\ aliveSent[i].location = devices[i].location
                 /\ aliveSent[i].nt = devices[i].search_target
                 /\ aliveSent[i].nts = "ssdp:alive"
                 /\ aliveSent[i].max_age = max_age
                 /\ aliveSent[i].to = Multicast
          /\ (alivePc = "send" => Len(aliveSent) = aliveIdx - 1)
          /\ (alivePc = "pace" => Len(aliveSent) = aliveIdx)
          /\ (alivePc = "wait" =>
                 /\ aliveSleep = <<max_age * 1000>>
                 /\ (aliveLog = "" => Len(aliveSent) = Len(devices))))
    /\ [][ /\ (servePc = "created" /\ servePc' = "running" => alivePc' = "begin")
           /\ (alivePc = "wait" =>
                   aliveSent' = aliveSent /\ alivePc' \in {"wait", "begin", "done"})
           /\ (alivePc = "wait" /\ alivePc' = "done" => ShutdownSignalled)
           /\ (alivePc = "begin" /\ alivePc' # "begin" => aliveSent' = <<>>)
         ]_vars
    /\ ((alivePc = "begin") ~> (alivePc = "wait"))
    /\ ((alivePc = "wait") ~> (alivePc \in {"begin", "done"}))

\* A second cycle is about to start, the first having sent both messages.
C8_Witness ==
    /\ ~ShutdownSignalled
    /\ alivePc = "begin"
    /\ aliveLog = ""
    /\ Len(devices) = 2
    /\ Len(aliveSent) = 2
    /\ max_age = 0
    /\ aliveSent[2].max_age = 0

\* C9: whatever the datagram, the loop body ends back in recv_from with the
\* future still pending; a reply task's step, failed send included, leaves the
\* loop where it is; the future completes only from recv_from, and its result
\* is then that receive error.
C9_OnlyRecvErrorEndsLoop ==
    [][ /\ (servePc = "dispatch" =>
                /\ servePc' \in {"dispatch", "running"}
                /\ serveResult' = serveResult
                /\ notify_tx' = notify_tx)
        /\ (replies' # replies /\ Len(replies') = Len(replies) =>
                servePc' = servePc /\ serveResult' = serveResult /\ notify_tx' = notify_tx)
        /\ (servePc # "completed" /\ servePc' = "completed" =>
                servePc = "running" /\ serveResult' = <<"Err", "recv_from">>)
        /\ (serveResult' # serveResult => servePc' = "completed")
        /\ (servePc = "completed" => servePc' = "completed" /\ serveResult' = serveResult)
      ]_vars

\* A reply send has failed, the last datagram was a search that failed
\* validation, and the loop is back in recv_from.
C9_Witness ==
    /\ servePc = "running"
    /\ serveResult = <<"Pending">>
    /\ recvCount = 2
    /\ Len(lastLog) = 2 /\ lastLog[1] = "Handle search failed"
    /\ \E i \in 1..Len(replies) : replies[i].pc = "failed"

\* A reply is spawned, sleeping or sending.
Pending(i) == replies[i].pc \in {"spawned", "sleeping", "sending"}

\* C10: with replies pending the loop in recv_from can take a datagram, and
\* every pending reply can take its own next step whatever the state of the
\* others; the loop body run on a later datagram ends back in recv_from and
\* leaves the pending replies as they were; and a step of one reply changes no
\* other reply.
C10_RepliesDoNotBlock ==
    /\ []((\E i \in 1..Len(replies) : Pending(i)) /\ servePc = "running" /\ recvCount < MaxRecv =>
              ENABLED RecvAny)
    /\ [](\A i \in 1..Len(replies) :
              /\ (replies[i].pc = "spawned" => ENABLED ReplyStart(i))
              /\ (replies[i].pc \in {"sleeping", "sending"} => ENABLED ReplySendOk(i)))
    /\ [][ /\ (servePc = "dispatch" /\ servePc' # "dispatch" =>
                   /\ servePc' = "running"
                   /\ Len(replies') >= Len(replies)
                   /\ SubSeq(replies', 1, Len(replies)) = replies)
           /\ (Len(replies') = Len(replies) =>
                   Cardinality({i \in 1..Len(replies) : replies'[i] # replies[i]}) <= 1)
           /\ (servePc' # servePc => replies' = replies \/ servePc = "dispatch")
         ]_vars

\* The reply to the second query is sent while the reply to the first still
\* sleeps.
C10_Witness ==
    /\ Len(replies) = 2
    /\ replies[1].pc = "sleeping"
    /\ replies[2].pc = "sent"
    /\ servePc = "running"

\* Reply i has made its send attempt.
Attempted(i) == i <= Len(replies) /\ replies[i].pc \in {"sent", "failed"}

\* C11: a spawned reply is never removed or set back, whatever else ends: each
\* step leaves it alone or moves it on, from spawned to its sleep or send and
\* from there to the finished attempt; and every spawned reply does reach its
\* send attempt.
C11_ReplyAlwaysAttempted ==
    /\ [][\A i \in 1..Len(replies) :
             /\ i <= Len(replies')
             /\ \/ replies'[i] = replies[i]
                \/ replies[i].pc = "spawned" /\ replies'[i].pc \in {"sleeping", "sending"}
                \/ replies[i].pc \in {"sleeping", "sending"} /\ replies'[i].pc \in {"sent", "failed"}
             /\ replies'[i].response = replies[i].response
             /\ replies'[i].remote_addr = replies[i].remote_addr]_vars
    /\ \A i \in 1..MaxRecv : (i <= Len(replies)) ~> Attempted(i)

\* Everything else has ended: the serving future, the alive loop and the
\* byebye task; a reply still sleeps.
C11_Witness ==
    /\ servePc \in {"completed", "dropped"}
    /\ alivePc = "done"
    /\ byePc = "done"
    /\ Len(replies) >= 1
    /\ replies[1].pc = "sleeping"
    /\ replies[1].wait = 1

\* C12 as claimed: a byebye send that fails for a device other than the last
\* does not end the byebye task.
C12_ByebyeContinuesAfterFailure ==
    [][byePc = "send" /\ byeLog' = "Send byebye messages failed" /\ byeIdx < Len(devices) =>
          byePc' # "done"]_vars

\* C12 amended: the first byebye send that fails ends the byebye task. The
\* failure is logged, the devices before the failed one have had their
\* messages sent, in order, and no byebye message is sent for the failed
\* device or for any device after it.
C12_ByebyeEndsAtFailure ==
    /\ [](byeLog = "Send byebye messages failed" =>
             /\ byePc = "done"
             /\ Len(byeSent) < Len(devices)
             /\ \A i \in 1..Len(byeSent) : byeSent[i].usn = devices[i].usn)
    /\ [][ /\ (byePc = "send" /\ byeSent' = byeSent /\ byePc' # "send" =>
                   byePc' = "done" /\ byeLog' = "Send byebye messages failed")
           /\ (byeLog = "Send byebye messages failed" =>
                   byeSent' = byeSent /\ byePc' = "done" /\ byeLog' = byeLog)
         ]_vars

\* The send for the first of two devices has failed: the task has ended and
\* the second device's message was never sent.
C12_Witness ==
    /\ Len(devices) = 2
    /\ byeLog = "Send byebye messages failed"
    /\ byePc = "done"
    /\ byeSent = <<>>

\* C13: a failed alive send is logged and takes the loop to its wait of
\* max_age seconds, never to its end; from that wait the timer can always
\* start the next cycle, the loop ends only if shutdown is signalled, and a
\* cycle starts at device 1 with nothing sent.
C13_AliveSurvivesSendFailure ==
    /\ [](aliveLog = "Send alive messages failed" =>
             /\ alivePc \in {"wait", "begin"}
             /\ (alivePc = "wait" => aliveSleep = <<max_age * 1000>> /\ ENABLED AliveWake))
    /\ [][ /\ (alivePc = "send" /\ aliveSent' = aliveSent /\ alivePc' # "send" =>
                   alivePc' = "wait" /\ aliveLog' = "Send alive messages failed")
           /\ (aliveLog = "Send alive messages failed" /\ alivePc' = "done" =>
                   alivePc = "wait" /\ ShutdownSignalled)
           /\ (alivePc = "begin" /\ alivePc' # "begin" /\ Len(devices) > 0 =>
                   alivePc' = "send" /\ aliveIdx' = 1 /\ aliveSent' = <<>> /\ aliveLog' = "")
           /\ (alivePc = "send" /\ aliveIdx = 1 /\ aliveSent' # aliveSent =>
                   aliveSent' = <<[to |-> Multicast, max_age |-> max_age,
                                   location |-> devices[1].location,
                                   nt |-> devices[1].search_target,
                                   nts |-> "ssdp:alive", usn |-> devices[1].usn]>>)
         ]_vars

\* The send for the second of two devices failed, the wait is over and the
\* next cycle is about to start, with no shutdown.
C13_Witness ==
    /\ ~ShutdownSignalled
    /\ Len(devices) = 2
    /\ alivePc = "begin"
    /\ aliveLog = "Send alive messages failed"
    /\ Len(aliveSent) = 1

\* C14: once shutdown is signalled the alive loop ends, whatever max_age and
\* the registry; the step that ends it sends nothing, and the byebye messages
\* are sent by the byebye task alone: no step of the alive loop adds one.
C14_AliveTerminates ==
    /\ ShutdownSignalled ~> (alivePc = "done")
    /\ [][ /\ (alivePc # "done" /\ alivePc' = "done" =>
                   aliveSent' = aliveSent /\ byeSent' = byeSent)
           /\ (alivePc' # alivePc \/ aliveSent' # aliveSent => byeSent' = byeSent)
           /\ (byeSent' # byeSent => byePc = "send" /\ byePc' = "pace")
         ]_vars

\* With max_age 0 and two devices the loop has ended on the signal while the
\* byebye task has not sent anything yet.
C14_Witness ==
    /\ ShutdownSignalled
    /\ max_age = 0
    /\ Len(devices) = 2
    /\ alivePc = "done"
    /\ aliveLog = "notify_alive shutdown"
    /\ byeSent = <<>>

\* The datagram ends in CR LF but not in CR LF CR LF.
SingleCrlf(r) ==
    /\ r.n >= 2
    /\ r.tail[Len(r.tail) - 1] = 13 /\ r.tail[Len(r.tail)] = 10
    /\ ~(r.n >= 4 /\ r.tail = <<13, 10, 13, 10>>)

\* C17 as claimed: with the workaround enabled a datagram of length n ending
\* in a single CRLF with n + 2 <= 2048 is parsed with one CRLF added; every
\* other datagram, and every datagram when the workaround is disabled, is
\* parsed as received.
C17_FixupWhenRoom ==
    servePc = "dispatch" =>
        IF partial_req_workaround /\ SingleCrlf(raw) /\ raw.n + 2 <= 2048
        THEN /\ buf.n = raw.n + 2
             /\ Len(buf.tail) >= 4
             /\ SubSeq(buf.tail, Len(buf.tail) - 3, Len(buf.tail)) = <<13, 10, 13, 10>>
        ELSE buf = raw

\* How many header lines of the text carry the name, ignoring ASCII case.
HeaderCount(text, name) ==
    Cardinality({i \in 1..Len(text) : text[i].kind = "header" /\ SameFolded(text[i].name, name)})

\* The text ends with an empty line and has each of the names once.
WellFormedText(text, mandatory) ==
    /\ text[Len(text)].kind = "empty"
    /\ \A name \in mandatory : HeaderCount(text, name) = 1

\* The mandatory headers: CACHE-CONTROL, DATE, EXT, LOCATION, SERVER, ST, USN
\* of a search response; HOST, CACHE-CONTROL, LOCATION, NT, NTS, SERVER, USN
\* of an alive message; HOST, NT, NTS, USN of a byebye message.
ResponseMandatory ==
    { <<67, 65, 67, 72, 69, 45, 67, 79, 78, 84, 82, 79, 76>>, <<68, 65, 84, 69>>, <<69, 88, 84>>,
      <<76, 79, 67, 65, 84, 73, 79, 78>>, <<83, 69, 82, 86, 69, 82>>, <<83, 84>>, <<85, 83, 78>> }
AliveMandatory ==
    { <<72, 79, 83, 84>>, <<67, 65, 67, 72, 69, 45, 67, 79, 78, 84, 82, 79, 76>>,
      <<76, 79, 67, 65, 84, 73, 79, 78>>, <<78, 84>>, <<78, 84, 83>>,
      <<83, 69, 82, 86, 69, 82>>, <<85, 83, 78>> }
ByebyeMandatory == { <<72, 79, 83, 84>>, <<78, 84>>, <<78, 84, 83>>, <<85, 83, 78>> }

\* C15 as claimed: every message sent, of each of the three kinds, whatever
\* the device and the configured extra headers, ends with an empty line and
\* has each mandatory header of its kind exactly once.
C15_MessagesWellFormed ==
    /\ \A i \in 1..Len(replies) :
          replies[i].pc = "sent" =>
              WellFormedText(ResponseText(replies[i].response, headers), ResponseMandatory)
    /\ \A i \in 1..Len(aliveSent) :
          WellFormedText(AliveText(aliveSent[i], headers), AliveMandatory)
    /\ \A i \in 1..Len(byeSent) :
          WellFormedText(ByebyeText(byeSent[i], headers), ByebyeMandatory)

\* The devices whose search target is the request's ST, ignoring case.
Matching(hs) == {k \in 1..Len(devices) : Matches(devices[k], hs)}

\* C16: when two or more devices have the search target a valid search asks
\* for, there is exactly one reply; it carries the USN and the location of
\* the first of them in registration order, and those of no later one.
C16_FirstMatchWins ==
    (SearchHandled /\ WellFormed(req.headers) /\ Cardinality(Matching(req.headers)) >= 2) =>
        \E f \in Matching(req.headers) :
            /\ \A k \in Matching(req.headers) : f <= k
            /\ Len(replies) = 1
            /\ replies[1].response.usn = devices[f].usn
            /\ replies[1].response.location = devices[f].location
            /\ \A k \in Matching(req.headers) :
                   k # f => replies[1].response.usn # devices[k].usn

\* Both of two devices have the target asked for; the one reply, sent, is
\* the first device's.
C16_Witness ==
    /\ SearchHandled /\ WellFormed(req.headers)
    /\ Len(devices) = 2
    /\ Matching(req.headers) = {1, 2}
    /\ Len(replies) = 1
    /\ replies[1].pc = "sent"
    /\ replies[1].response.usn = <<"usn", 1>>
    /\ replies[1].response.location = <<"loc", 1>>

\* C18: the senders are dropped only when the serving future has ended. While
\* the dispatch loop runs, at recv_from or in its body, the senders are live,
\* the byebye task waits and has sent nothing, and the alive loop has not
\* ended.
C18_NoShutdownWhileServing ==
    /\ (servePc \in {"running", "dispatch"} =>
            /\ notify_tx = "live"
            /\ byePc = "await"
            /\ byeSent = <<>>
            /\ alivePc \in {"begin", "send", "pace", "wait"})
    /\ (ShutdownSignalled => servePc \in {"completed", "dropped"})

\* Two datagrams in, the alive loop before its second cycle, all quiet on
\* the byebye side.
C18_Witness ==
    /\ servePc = "running"
    /\ recvCount = 2
    /\ Len(devices) = 2
    /\ alivePc = "begin"
    /\ Len(aliveSent) = 2
    /\ byePc = "await"
    /\ byeSent = <<>>

\* The device with this USN.
DeviceOfUsn(u) == CHOOSE k \in 1..Len(devices) : devices[k].usn = u

\* C19: the reply the loop body spawns goes to the sender of the request in
\* buf and advertises the first device matching that request's ST; from then
\* on no step, later datagrams and the task's own steps included, changes its
\* response or its address.
C19_ReplyFixedAtSpawn ==
    [][ /\ \A i \in 1..Len(replies) :
              /\ i <= Len(replies')
              /\ replies'[i].response = replies[i].response
              /\ replies'[i].remote_addr = replies[i].remote_addr
        /\ (Len(replies') > Len(replies) =>
              /\ Len(replies') = Len(replies) + 1
              /\ servePc = "dispatch"
              /\ LET new == replies'[Len(replies')]
                 IN  /\ new.remote_addr = addr
                     /\ \E k \in Matching(req.headers) :
                            /\ \A j \in Matching(req.headers) : k <= j
                            /\ new.response.usn = devices[k].usn
                            /\ new.response.location = devices[k].location
                            /\ new.response.st = devices[k].search_target)
      ]_vars

\* The first reply, for device 1 and the first sender, still sleeps; the
\* loop has since received a search for device 2 from the other sender and
\* spawned its reply.
C19_Witness ==
    /\ Len(replies) = 2
    /\ replies[1].pc = "sleeping"
    /\ replies[1].remote_addr = "10.0.0.1:5000"
    /\ replies[1].response.usn = <<"usn", 1>>
    /\ addr = "10.0.0.2:6000"
    /\ replies[2].remote_addr = "10.0.0.2:6000"
    /\ replies[2].response.usn = <<"usn", 2>>
    /\ replies[2].pc = "sent"

\* C20: a well-formed M-SEARCH * without an MX header that matches a device is
\* handled as one with MX 0: nothing is logged, one reply task is spawned for
\* the sender, and that task never sleeps, going from its draw straight to its
\* send with a delay of 0.
C20_NoMxMeansZero ==
    (/\ SearchHandled
     /\ WellFormed(req.headers)
     /\ ~HasHeader(req.headers, IsMx)
     /\ Matching(req.headers) # {}) =>
        /\ lastLog = <<>>
        /\ Len(replies) = 1
        /\ replies[1].remote_addr = addr
        /\ replies[1].mx = U32Zero
        /\ replies[1].wait = 0
        /\ replies[1].pc \in {"spawned", "sending", "sent", "failed"}

C20_Witness ==
    /\ SearchHandled
    /\ Len(req.headers) = 2
    /\ WellFormed(req.headers)
    /\ ~HasHeader(req.headers, IsMx)
    /\ Matching(req.headers) # {}
    /\ Len(replies) = 1
    /\ replies[1].pc = "sent"
    /\ replies[1].wait = 0

====
